---- MODULE Spec2Model ----
(***************************************************************************)
(* Letter-request workflow: the relational store (users, students,         *)
(* letter_requests, supporting_documents, disposition_assignments,         *)
(* tracking_logs) and the handlers that mutate it.  Every handler is one   *)
(* action; the statements of a handler are applied in source order, so a   *)
(* handler that throws after a write keeps that write (there is no         *)
(* transaction in the handlers).                                           *)
(***************************************************************************)
EXTENDS Integers, Sequences, FiniteSets, TLC

VARIABLES users, students, requests, documents, assignments, logs, last, pending

vars == <<users, students, requests, documents, assignments, logs, last, pending>>
db == <<users, students, requests, documents, assignments, logs>>

(* ------------------------------ bounds --------------------------------- *)
MaxRequests == 1
MaxLogs == 5
MaxAssignments == 3

(* ---------------------------- null values ------------------------------ *)
NullId == 0
NullText == "NULL"

(* --------------------------- schema enums ------------------------------ *)
UserRole == {"STUDENT", "STAFF_PRODI", "KAPRODI", "STAFF_FAKULTAS", "DEKAN",
             "WD1", "WD2", "WD3", "KABAG_TU", "KAUR_AKADEMIK",
             "KAUR_KEMAHASISWAAN", "KAUR_KEUANGAN", "ADMIN"}

DispositionStatuses == {"DISPOSISI_TO_WD1", "DISPOSISI_TO_WD2", "DISPOSISI_TO_WD3",
                        "DISPOSISI_TO_KABAG_TU", "DISPOSISI_TO_KAUR_AKADEMIK",
                        "DISPOSISI_TO_KAUR_KEMAHASISWAAN", "DISPOSISI_TO_KAUR_KEUANGAN"}

RequestStatus == {"DRAFT", "APPROVED_KAPRODI", "FORWARDED_TO_DEKAN"}
                 \cup DispositionStatuses
                 \cup {"PROCESSED_BY_WD1", "PROCESSED_BY_WD2", "PROCESSED_BY_WD3",
                       "PROCESSED_BY_KABAG_TU", "PROCESSED_BY_KAUR_AKADEMIK",
                       "PROCESSED_BY_KAUR_KEMAHASISWAAN", "PROCESSED_BY_KAUR_KEUANGAN",
                       "TTD_READY", "TTD_DONE", "RETURNED_TO_PRODI", "PRINTED",
                       "DELIVERED", "ARCHIVED", "REJECTED", "ESCALATED"}

(* --------------------------- the directory ----------------------------- *)
(* createUser and createStudent are called with these inputs, in order;    *)
(* the serial id of a row is its position in the table.                    *)
UserInputs == << [role |-> "STAFF_PRODI",    prodi |-> "TI"],
                 [role |-> "KAPRODI",        prodi |-> "TI"],
                 [role |-> "WD1",            prodi |-> NullText],
                 [role |-> "KABAG_TU",       prodi |-> NullText],
                 [role |-> "STAFF_FAKULTAS", prodi |-> NullText],
                 [role |-> "DEKAN",          prodi |-> NullText],
                 [role |-> "ADMIN",          prodi |-> NullText] >>

StudentInputs == << [prodi |-> "TI"] >>

Ids(table) == DOMAIN table

UsersWithRole(role) == {u \in Ids(users) : users[u].role = role}

(* An unordered SELECT: any matching row may come first; no row gives null. *)
FirstFound(rows) == IF rows = {} THEN {NullId} ELSE rows

(* The outcome of the latest handler call. *)
Outcome(op, id, result) == [op |-> op, id |-> id, result |-> result]

Fails(op, id, error) ==
  /\ last' = Outcome(op, id, error)
  /\ UNCHANGED db

(* the step is a call of the handler that returned normally *)
Succeeds(op) == last'.op = op /\ last'.result = "ok"

(* pending holds the invocations that have read and not yet written; a      *)
(* handler that runs as a whole starts when none is in flight.              *)
NothingInFlight == pending = << >> /\ UNCHANGED pending

Init ==
  /\ users = << >>
  /\ students = << >>
  /\ requests = << >>
  /\ documents = << >>
  /\ assignments = << >>
  /\ logs = << >>
  /\ last = Outcome("init", NullId, "ok")
  /\ pending = << >>

CreateUser ==
  /\ NothingInFlight
  /\ Len(users) < Len(UserInputs)
  /\ users' = Append(users, UserInputs[Len(users) + 1])
  /\ last' = Outcome("createUser", Len(users) + 1, "ok")
  /\ UNCHANGED <<students, requests, documents, assignments, logs>>

CreateStudent ==
  /\ NothingInFlight
  /\ Len(students) < Len(StudentInputs)
  /\ students' = Append(students, StudentInputs[Len(students) + 1])
  /\ last' = Outcome("createStudent", Len(students) + 1, "ok")
  /\ UNCHANGED <<users, requests, documents, assignments, logs>>

(* ------------------------------ inputs --------------------------------- *)
(* The acting user of a lifecycle call: program staff, the program chair,   *)
(* an officer or the dean.                                                 *)
ActorInputs ==
  {u \in Ids(users) :
     users[u].role \in {"STAFF_PRODI", "KAPRODI", "WD1", "KABAG_TU", "DEKAN"}}

RequestIdInputs == 1 .. (Len(requests) + 1)

StudentIdInputs == 1 .. (Len(students) + 1)

CreatorInputs == {u \in Ids(users) : u <= 1}

PriorityInputs == {"NORMAL"}

DocumentInputs == { << [file_name |-> "ktm.pdf", file_url |-> "url/ktm.pdf"] >> }

NotesInputs == {NullText, "note"}

(* ------------------------ createLetterRequest -------------------------- *)
ErrStudentNotFound == "Student not found"
ErrNoKaprodi == "No Kaprodi found for prodi"

(* the program chairs, whatever their program *)
KaprodiOfAnyProdi(student) == UsersWithRole("KAPRODI")

(* kaprodiResult.find(user => user.prodi === student.prodi) *)
KaprodiFor(student) == {u \in UsersWithRole("KAPRODI") : users[u].prodi = student.prodi}

NewRequest(input, userId, kaprodi) ==
  [ student_id |-> input.student_id,
    created_by_user_id |-> userId,
    letter_type |-> input.letter_type,
    purpose |-> input.purpose,
    priority |-> input.priority,
    status |-> "DRAFT",
    current_handler_user_id |-> kaprodi,
    dekan_instructions |-> NullText,
    final_letter_url |-> NullText ]

(* no document row for the documents of the input *)
NoDocuments(requestId, docs, userId) == << >>

NewDocuments(requestId, docs, userId) ==
  [ i \in DOMAIN docs |->
      [ letter_request_id |-> requestId,
        file_name |-> docs[i].file_name,
        file_url |-> docs[i].file_url,
        uploaded_by_user_id |-> userId ] ]

LogRow(requestId, userId, actionType, description, notes, previous, new) ==
  [ letter_request_id |-> requestId,
    user_id |-> userId,
    action_type |-> actionType,
    description |-> description,
    notes |-> notes,
    previous_status |-> previous,
    new_status |-> new ]

CreatedLogRow(requestId, userId) ==
  LogRow(requestId, userId, "CREATED", "Letter request created", "Purpose",
         NullText, "DRAFT")

CreateLetterRequest(input, userId) ==
  LET op == "createLetterRequest"
      rid == Len(requests) + 1
  IN
  IF input.student_id \notin Ids(students)
  THEN Fails(op, NullId, ErrStudentNotFound)
  ELSE IF KaprodiFor(students[input.student_id]) = {}
  THEN Fails(op, NullId, ErrNoKaprodi)
  ELSE
    /\ Len(requests) < MaxRequests
    /\ Len(logs) < MaxLogs
    /\ \E kaprodi \in KaprodiFor(students[input.student_id]) :
         requests' = Append(requests, NewRequest(input, userId, kaprodi))
    /\ documents' = documents \o NewDocuments(rid, input.supporting_documents, userId)
    /\ logs' = Append(logs, CreatedLogRow(rid, userId))
    /\ last' = Outcome(op, rid, "ok")
    /\ UNCHANGED <<users, students, assignments>>

CreateLetterRequestInputs ==
  [ student_id : StudentIdInputs,
    letter_type : {"Surat Keterangan Aktif"},
    purpose : {"Keperluan beasiswa"},
    priority : PriorityInputs,
    supporting_documents : DocumentInputs ]

(* ------------------------ updateRequestStatus -------------------------- *)
ErrRequestNotFound == "Letter request not found"
ErrUpdatePermission == "User does not have permission to update this request"

MaxUpdates == 1

StatusUpdates == {i \in DOMAIN logs : logs[i].description = "Status updated"}

StatusActionType(status) ==
  CASE status = "APPROVED_KAPRODI" -> "APPROVED"
    [] status = "REJECTED" -> "REJECTED"
    [] status = "ARCHIVED" -> "ARCHIVED"
    [] status = "PRINTED" -> "PRINTED"
    [] status = "DELIVERED" -> "DELIVERED"
    [] status = "RETURNED_TO_PRODI" -> "RETURNED"
    [] status = "TTD_DONE" -> "SIGNED"
    [] status = "ESCALATED" -> "ESCALATED"
    [] status \in DispositionStatuses -> "DISPOSISI_ASSIGNED"
    [] status = "FORWARDED_TO_DEKAN" -> "FORWARDED"
    [] OTHER -> "PROCESSED"

(* the permission of any user of the directory *)
CanUpdateAsUser(req, userId) == userId \in Ids(users)

CanUpdate(req, userId) ==
  \/ req.created_by_user_id = userId
  \/ req.current_handler_user_id = userId

(* the status log row without the notes of the input *)
StatusLogRowNoNotes(input, userId, previous) ==
  LogRow(input.request_id, userId, StatusActionType(input.new_status), "Status updated",
         NullText, previous, input.new_status)

StatusLogRow(input, userId, previous) ==
  LogRow(input.request_id, userId, StatusActionType(input.new_status), "Status updated",
         input.notes, previous, input.new_status)

UpdateRequestStatus(input, userId) ==
  LET op == "updateRequestStatus"
      rid == input.request_id
  IN
  IF rid \notin Ids(requests)
  THEN Fails(op, rid, ErrRequestNotFound)
  ELSE IF ~CanUpdate(requests[rid], userId)
  THEN Fails(op, rid, ErrUpdatePermission)
  ELSE
    /\ Len(logs) < MaxLogs
    /\ requests' = [requests EXCEPT
         ![rid].status = input.new_status,
         ![rid].current_handler_user_id =
            IF input.next_handler_user_id # NullId
            THEN input.next_handler_user_id ELSE @]
    /\ logs' = Append(logs, StatusLogRow(input, userId, requests[rid].status))
    /\ last' = Outcome(op, rid, "ok")
    /\ UNCHANGED <<users, students, documents, assignments>>

UpdateInput(rid, status, notes, handler) ==
  [ request_id |-> rid, new_status |-> status, notes |-> notes,
    next_handler_user_id |-> handler ]

(* forward to the dean, hand over to an officer that processed, archive *)
UpdateRequestStatusInputs ==
  UNION { { UpdateInput(rid, "FORWARDED_TO_DEKAN", "note", u) : u \in UsersWithRole("DEKAN") }
          \cup { UpdateInput(rid, "PROCESSED_BY_WD1", NullText, u) : u \in UsersWithRole("WD1") }
          \cup { UpdateInput(rid, "ARCHIVED", NullText, NullId) } :
          rid \in RequestIdInputs }

(* A call that is refused reads neither the new status nor the notes: one   *)
(* input stands for all of them.                                            *)
UpdateCalls ==
  { call \in UpdateRequestStatusInputs \X ActorInputs :
      \/ /\ call[1].request_id \in Ids(requests)
         /\ CanUpdate(requests[call[1].request_id], call[2])
      \/ call[1].new_status = "ARCHIVED" }

(* -------------------------- createDisposition -------------------------- *)
ErrOnlyDekan == "Only Dekan can create disposition assignments"
ErrDispositionStatus == "Letter request must be in FORWARDED_TO_DEKAN status to create disposition"
ErrAssignedUser == "Assigned user not found"
ErrInvalidRole == "Invalid role for disposition assignment"

(* the user lookup without its role condition *)
IsAnyUser(userId) == userId \in Ids(users)

IsDekan(userId) == userId \in Ids(users) /\ users[userId].role = "DEKAN"

(* createDisposition without the status condition of its request lookup *)
DispositionAnyStatus(req) == TRUE

DispositionStatusOk(req) == req.status = "FORWARDED_TO_DEKAN"

AssignedUsersExist(list) == \A i \in DOMAIN list : list[i].user_id \in Ids(users)

NewAssignments(input, dekanUserId) ==
  [ i \in DOMAIN input.assignments |->
      [ letter_request_id |-> input.request_id,
        assigned_to_user_id |-> input.assignments[i].user_id,
        assigned_by_user_id |-> dekanUserId,
        instructions |-> input.instructions,
        order_sequence |-> input.assignments[i].order_sequence,
        is_completed |-> FALSE,
        completed_at |-> NullText,
        notes |-> NullText ] ]

(* the switch on the first assigned user's role; "" stands for the default branch *)
DispositionStatusFor(role) ==
  CASE role = "WD1" -> "DISPOSISI_TO_WD1"
    [] role = "WD2" -> "DISPOSISI_TO_WD2"
    [] role = "WD3" -> "DISPOSISI_TO_WD3"
    [] role = "KABAG_TU" -> "DISPOSISI_TO_KABAG_TU"
    [] role = "KAUR_AKADEMIK" -> "DISPOSISI_TO_KAUR_AKADEMIK"
    [] role = "KAUR_KEMAHASISWAAN" -> "DISPOSISI_TO_KAUR_KEMAHASISWAAN"
    [] role = "KAUR_KEUANGAN" -> "DISPOSISI_TO_KAUR_KEUANGAN"
    [] OTHER -> ""

(* input.assignments[0].user_id *)
FirstAssignee(list) == list[1].user_id

(* `Disposition assignments created by Dekan for ${input.assignments.length} officers` *)
DispositionDescription(n) ==
  "Disposition assignments created by Dekan for " \o ToString(n) \o " officers"

DispositionLogRow(input, dekanUserId, newStatus) ==
  LogRow(input.request_id, dekanUserId, "DISPOSISI_ASSIGNED",
         DispositionDescription(Len(input.assignments)), input.instructions,
         "FORWARDED_TO_DEKAN", newStatus)

CreateDisposition(input, dekanUserId) ==
  LET op == "createDisposition"
      rid == input.request_id
      newStatus == DispositionStatusFor(users[FirstAssignee(input.assignments)].role)
  IN
  IF ~IsDekan(dekanUserId)
  THEN Fails(op, rid, ErrOnlyDekan)
  ELSE IF rid \notin Ids(requests)
  THEN Fails(op, rid, ErrRequestNotFound)
  ELSE IF ~DispositionStatusOk(requests[rid])
  THEN Fails(op, rid, ErrDispositionStatus)
  ELSE IF ~AssignedUsersExist(input.assignments)
  THEN Fails(op, rid, ErrAssignedUser)
  ELSE
    /\ Len(assignments) + Len(input.assignments) <= MaxAssignments
    /\ assignments' = assignments \o NewAssignments(input, dekanUserId)
    /\ IF newStatus = ""
       THEN /\ last' = Outcome(op, rid, ErrInvalidRole)
            /\ UNCHANGED <<users, students, requests, documents, logs>>
       ELSE /\ Len(logs) < MaxLogs
            /\ requests' = [requests EXCEPT
                 ![rid].dekan_instructions = input.instructions,
                 ![rid].status = newStatus,
                 ![rid].current_handler_user_id = FirstAssignee(input.assignments)]
            /\ logs' = Append(logs, DispositionLogRow(input, dekanUserId, newStatus))
            /\ last' = Outcome(op, rid, "ok")
            /\ UNCHANGED <<users, students, documents>>

Assign(userId, seq) == [user_id |-> userId, order_sequence |-> seq]

(* lists in sequence order and not, with a first assignee whose role has no  *)
(* disposition status, with an unknown user; the sequence numbers of a list  *)
(* are distinct                                                              *)
AssignmentListInputs ==
  { << Assign(3, 1) >>,
    << Assign(3, 1), Assign(4, 2) >>,
    << Assign(4, 2), Assign(3, 1) >>,
    << Assign(3, 1), Assign(4, 2), Assign(3, 3) >>,
    << Assign(1, 1) >>,
    << Assign(3, 1), Assign(Len(users) + 1, 2) >> }

CreateDispositionInputs ==
  [ request_id : RequestIdInputs,
    instructions : {"Sequential processing required"},
    assignments : AssignmentListInputs ]

(* A call refused before the assigned users are read: one list stands for   *)
(* all of them.                                                             *)
DispositionCalls ==
  { call \in CreateDispositionInputs \X ActorInputs :
      \/ /\ IsDekan(call[2])
         /\ call[1].request_id \in Ids(requests)
         /\ DispositionStatusOk(requests[call[1].request_id])
      \/ call[1].assignments = << Assign(3, 1) >> }

(* ------------------------- processDisposition -------------------------- *)
ErrAssignment == "Assignment not found or not assigned to user or already completed"

(* the first SELECT without its is_completed = false condition *)
AssignmentForAnyCompletion(assignmentId, userId) ==
  /\ assignmentId \in Ids(assignments)
  /\ assignments[assignmentId].assigned_to_user_id = userId

(* the first SELECT without its assigned_to_user_id condition *)
AssignmentForAnyUser(assignmentId, userId) ==
  /\ assignmentId \in Ids(assignments)
  /\ ~assignments[assignmentId].is_completed

(* the first SELECT: id, assigned user and is_completed = false *)
AssignmentFor(assignmentId, userId) ==
  /\ assignmentId \in Ids(assignments)
  /\ assignments[assignmentId].assigned_to_user_id = userId
  /\ ~assignments[assignmentId].is_completed

(* un-completed assignments of the request with a greater order_sequence *)
LaterAssignments(current) ==
  {a \in Ids(assignments) :
     /\ assignments[a].letter_request_id = current.letter_request_id
     /\ assignments[a].order_sequence > current.order_sequence
     /\ ~assignments[a].is_completed}

(* ORDER BY order_sequence ASC LIMIT 1: a row of the least order_sequence *)
NextAssignment(current) ==
  {a \in LaterAssignments(current) :
     \A b \in LaterAssignments(current) :
        assignments[a].order_sequence <= assignments[b].order_sequence}

(* the pairs <<newStatus, nextHandlerId>> the branches of the handler can give *)
Routing(input, current, req) ==
  IF input.escalate
  THEN IF UsersWithRole("ADMIN") # {}
       THEN {<<"ESCALATED", u>> : u \in UsersWithRole("ADMIN")}
       ELSE {<<req.status, NullId>>}
  ELSE IF input.flag_for_coordination
  THEN IF UsersWithRole("DEKAN") # {}
       THEN {<<"FORWARDED_TO_DEKAN", u>> : u \in UsersWithRole("DEKAN")}
       ELSE {<<req.status, NullId>>}
  ELSE IF NextAssignment(current) # {}
  THEN {<<req.status, assignments[a].assigned_to_user_id>> : a \in NextAssignment(current)}
  ELSE {<<"TTD_READY", u>> : u \in FirstFound(UsersWithRole("DEKAN"))}

ProcessActionType(input) == IF input.escalate THEN "ESCALATED" ELSE "PROCESSED"

ProcessDescription(input, newStatus) ==
  IF input.escalate THEN "Request escalated to admin"
  ELSE IF input.flag_for_coordination THEN "Request flagged for dean coordination"
  ELSE IF newStatus = "TTD_READY"
  THEN "All disposition assignments completed, ready for signing"
  ELSE "Disposition assignment completed"

(* the log row with the previous status written as new_status too *)
ProcessLogRowOldStatus(input, userId, requestId, previous, newStatus) ==
  LogRow(requestId, userId, ProcessActionType(input),
         ProcessDescription(input, newStatus), input.notes, previous, previous)

ProcessLogRow(input, userId, requestId, previous, newStatus) ==
  LogRow(requestId, userId, ProcessActionType(input),
         ProcessDescription(input, newStatus), input.notes, previous, newStatus)

(* the UPDATE without its id condition: every assignment is completed *)
CompleteEveryAssignment(assignmentId, notes) ==
  [a \in Ids(assignments) |->
     [assignments[a] EXCEPT !.is_completed = TRUE,
                            !.completed_at = "now",
                            !.notes = notes]]
(* the UPDATE reaching the later assignments of the request too *)
CompleteLaterAssignments(assignmentId, notes) ==
  [a \in Ids(assignments) |->
     IF \/ a = assignmentId
        \/ /\ assignments[a].letter_request_id = assignments[assignmentId].letter_request_id
           /\ assignments[a].order_sequence > assignments[assignmentId].order_sequence
     THEN [assignments[a] EXCEPT !.is_completed = TRUE,
                                 !.completed_at = "now",
                                 !.notes = notes]
     ELSE assignments[a]]
CompleteAssignment(assignmentId, notes) ==
  [assignments EXCEPT ![assignmentId].is_completed = TRUE,
                      ![assignmentId].completed_at = "now",
                      ![assignmentId].notes = notes]

ProcessDisposition(input, userId) ==
  LET op == "processDisposition"
      aid == input.assignment_id
      current == assignments[aid]
      rid == current.letter_request_id
  IN
  IF ~AssignmentFor(aid, userId)
  THEN Fails(op, aid, ErrAssignment)
  ELSE IF rid \notin Ids(requests)
  THEN Fails(op, aid, ErrRequestNotFound)
  ELSE
    /\ Len(logs) < MaxLogs
    /\ \E route \in Routing(input, current, requests[rid]) :
         /\ assignments' = CompleteAssignment(aid, input.notes)
         /\ requests' = [requests EXCEPT ![rid].status = route[1],
                                         ![rid].current_handler_user_id = route[2]]
         /\ logs' = Append(logs,
              ProcessLogRow(input, userId, rid, requests[rid].status, route[1]))
    /\ last' = Outcome(op, aid, "ok")
    /\ UNCHANGED <<users, students, documents>>

ProcessDispositionInputs ==
  [ assignment_id : 1 .. (Len(assignments) + 1),
    notes : {"note"},
    escalate : BOOLEAN,
    flag_for_coordination : BOOLEAN ]

(* -------------------------- uploadFinalLetter -------------------------- *)
ErrUploadNotAuthorized == "User is not authorized to upload final letter for this request"
ErrUploadStatus == "Cannot upload final letter for request in this status"
ErrNoDekan == "No DEKAN user found to assign as next handler"

(* every status taken as valid for the upload *)
anyStatus == RequestStatus

validStatuses == {"PROCESSED_BY_KAUR_AKADEMIK", "PROCESSED_BY_KAUR_KEMAHASISWAAN",
                  "PROCESSED_BY_KAUR_KEUANGAN", "PROCESSED_BY_WD1", "PROCESSED_BY_WD2",
                  "PROCESSED_BY_WD3", "PROCESSED_BY_KABAG_TU"}

(* the upload log row without the status before the call *)
FinalLetterLogRowNoPrevious(input, userId, previous) ==
  LogRow(input.request_id, userId, "DOCUMENT_UPLOADED",
         "Final letter document uploaded and ready for signature",
         "Final letter uploaded", NullText, "TTD_READY")

FinalLetterLogRow(input, userId, previous) ==
  LogRow(input.request_id, userId, "DOCUMENT_UPLOADED",
         "Final letter document uploaded and ready for signature",
         "Final letter uploaded", previous, "TTD_READY")

UploadFinalLetter(input, userId) ==
  LET op == "uploadFinalLetter"
      rid == input.request_id
  IN
  IF rid \notin Ids(requests)
  THEN Fails(op, rid, ErrRequestNotFound)
  ELSE IF requests[rid].current_handler_user_id # userId
  THEN Fails(op, rid, ErrUploadNotAuthorized)
  ELSE IF requests[rid].status \notin validStatuses
  THEN Fails(op, rid, ErrUploadStatus)
  ELSE IF UsersWithRole("DEKAN") = {}
  THEN Fails(op, rid, ErrNoDekan)
  ELSE
    /\ Len(logs) < MaxLogs
    /\ \E dekanUserId \in UsersWithRole("DEKAN") :
         requests' = [requests EXCEPT ![rid].final_letter_url = input.file_url,
                                      ![rid].status = "TTD_READY",
                                      ![rid].current_handler_user_id = dekanUserId]
    /\ logs' = Append(logs, FinalLetterLogRow(input, userId, requests[rid].status))
    /\ last' = Outcome(op, rid, "ok")
    /\ UNCHANGED <<users, students, documents, assignments>>

UploadFinalLetterInputs ==
  [ request_id : RequestIdInputs, file_url : {"url/final.pdf"} ]

(* ------------------------------ signLetter ----------------------------- *)
ErrOnlyDean == "Only Dean (DEKAN) can sign letters"
ErrNotReady == "Letter request is not ready for signing"
ErrNoFinalLetter == "Final letter document not found"
ErrNoStaffFakultas == "No Staff Fakultas available to handle signed letter"

(* !letterRequest.final_letter_url *)
HasFinalLetter(req) == req.final_letter_url # NullText /\ req.final_letter_url # ""

(* the SIGNED log row with the new status as previous_status too *)
SignedLogRowAfter(requestId, dekanUserId) ==
  LogRow(requestId, dekanUserId, "SIGNED", "Letter digitally signed by Dean",
         "Digital signature applied", "TTD_DONE", "TTD_DONE")

SignedLogRow(requestId, dekanUserId) ==
  LogRow(requestId, dekanUserId, "SIGNED", "Letter digitally signed by Dean",
         "Digital signature applied", "TTD_READY", "TTD_DONE")

ForwardedLogRow(requestId, dekanUserId) ==
  LogRow(requestId, dekanUserId, "FORWARDED",
         "Signed letter forwarded to Staff Fakultas for return processing",
         "Letter ready for return to prodi or delivery", "TTD_DONE", "TTD_DONE")

SignLetter(input, dekanUserId) ==
  LET op == "signLetter"
      rid == input.request_id
  IN
  IF ~IsDekan(dekanUserId)
  THEN Fails(op, rid, ErrOnlyDean)
  ELSE IF rid \notin Ids(requests)
  THEN Fails(op, rid, ErrRequestNotFound)
  ELSE IF requests[rid].status # "TTD_READY"
  THEN Fails(op, rid, ErrNotReady)
  ELSE IF ~HasFinalLetter(requests[rid])
  THEN Fails(op, rid, ErrNoFinalLetter)
  ELSE IF UsersWithRole("STAFF_FAKULTAS") = {}
  THEN Fails(op, rid, ErrNoStaffFakultas)
  ELSE
    /\ Len(logs) + 2 <= MaxLogs
    /\ \E staff \in UsersWithRole("STAFF_FAKULTAS") :
         requests' = [requests EXCEPT ![rid].status = "TTD_DONE",
                                      ![rid].current_handler_user_id = staff]
    /\ logs' = logs \o << SignedLogRow(rid, dekanUserId), ForwardedLogRow(rid, dekanUserId) >>
    /\ last' = Outcome(op, rid, "ok")
    /\ UNCHANGED <<users, students, documents, assignments>>

SignLetterInputs ==
  [ request_id : RequestIdInputs, signature_data : {"signature"} ]

(* ----------------------- uploadSupportingDocument ---------------------- *)
ErrUserNotFound == "User not found"
ErrDocumentPermission == "User does not have permission to upload documents for this request"

MaxDocuments == 2

StartsWith(role, prefix) ==
  CASE prefix = "WD" -> role \in {"WD1", "WD2", "WD3"}
    [] prefix = "KABAG" -> role \in {"KABAG_TU"}
    [] prefix = "KAUR" -> role \in {"KAUR_AKADEMIK", "KAUR_KEMAHASISWAAN", "KAUR_KEUANGAN"}

canUpload(req, userId) ==
  \/ req.created_by_user_id = userId
  \/ req.current_handler_user_id = userId
  \/ users[userId].role = "ADMIN"
  \/ users[userId].role \in {"STAFF_PRODI", "KAPRODI"}
  \/ users[userId].role = "STAFF_FAKULTAS"
  \/ users[userId].role = "DEKAN"
  \/ StartsWith(users[userId].role, "WD")
  \/ StartsWith(users[userId].role, "KABAG")
  \/ StartsWith(users[userId].role, "KAUR")

(* the log row of the upload carrying the status of the request *)
SupportingDocumentLogRowWithStatus(requestId, userId) ==
  LogRow(requestId, userId, "DOCUMENT_UPLOADED", "Supporting document uploaded",
         "File URL", requests[requestId].status, requests[requestId].status)
SupportingDocumentLogRow(requestId, userId) ==
  LogRow(requestId, userId, "DOCUMENT_UPLOADED", "Supporting document uploaded",
         "File URL", NullText, NullText)

UploadSupportingDocument(requestId, fileName, fileUrl, userId) ==
  LET op == "uploadSupportingDocument"
  IN
  IF requestId \notin Ids(requests)
  THEN Fails(op, requestId, ErrRequestNotFound)
  ELSE IF userId \notin Ids(users)
  THEN Fails(op, requestId, ErrUserNotFound)
  ELSE IF ~canUpload(requests[requestId], userId)
  THEN Fails(op, requestId, ErrDocumentPermission)
  ELSE
    /\ Len(documents) < MaxDocuments
    /\ Len(logs) < MaxLogs
    /\ documents' = Append(documents,
         [ letter_request_id |-> requestId, file_name |-> fileName,
           file_url |-> fileUrl, uploaded_by_user_id |-> userId ])
    /\ logs' = Append(logs, SupportingDocumentLogRow(requestId, userId))
    /\ last' = Outcome(op, requestId, "ok")
    /\ UNCHANGED <<users, students, requests, assignments>>

(* ----------------------------- addTrackingLog --------------------------- *)
MaxNotes == 1

NotesAdded == {i \in DOMAIN logs : logs[i].action_type = "NOTE_ADDED"}

(* the entry written over the latest row of the log instead of behind it *)
AddTrackingLogOverLatest(input, userId) ==
  LET op == "addTrackingLog"
      rid == input.request_id
  IN
  IF rid \notin Ids(requests)
  THEN Fails(op, rid, ErrRequestNotFound)
  ELSE IF userId \notin Ids(users)
  THEN Fails(op, rid, ErrUserNotFound)
  ELSE
    /\ Cardinality(NotesAdded) < MaxNotes
    /\ logs' = [logs EXCEPT ![Len(logs)] =
         LogRow(rid, userId, input.action_type, input.description, input.notes,
                input.previous_status, input.new_status)]
    /\ last' = Outcome(op, rid, "ok")
    /\ UNCHANGED <<users, students, requests, documents, assignments>>
AddTrackingLog(input, userId) ==
  LET op == "addTrackingLog"
      rid == input.request_id
  IN
  IF rid \notin Ids(requests)
  THEN Fails(op, rid, ErrRequestNotFound)
  ELSE IF userId \notin Ids(users)
  THEN Fails(op, rid, ErrUserNotFound)
  ELSE
    /\ Cardinality(NotesAdded) < MaxNotes
    /\ Len(logs) < MaxLogs
    /\ logs' = Append(logs,
         LogRow(rid, userId, input.action_type, input.description, input.notes,
                input.previous_status, input.new_status))
    /\ last' = Outcome(op, rid, "ok")
    /\ UNCHANGED <<users, students, requests, documents, assignments>>

AddTrackingLogInputs ==
  [ request_id : RequestIdInputs,
    action_type : {"NOTE_ADDED"},
    description : {"Manual note"},
    notes : {NullText},
    previous_status : {NullText},
    new_status : {NullText, "ARCHIVED"} ]

(* The creator of the requests, or an id that no user has. *)
AuditActorInputs == CreatorInputs \cup {Len(users) + 1}

(* ------------------------------- the reads ------------------------------ *)
(* A read returns rows and changes nothing.  The optional userId of a read  *)
(* is NullId when the caller names no acting user (the ids of users are     *)
(* serials from 1); a list of rows is a sequence, and null is the empty     *)
(* sequence.                                                                *)
RowsOf(table) == [i \in DOMAIN table |-> [id |-> i, row |-> table[i]]]

(* getRequestById: admin, creator, current handler or a faculty-level role *)
canViewRequest(req, userId) ==
  \/ users[userId].role = "ADMIN"
  \/ req.created_by_user_id = userId
  \/ req.current_handler_user_id = userId
  \/ users[userId].role \in {"DEKAN", "WD1", "WD2", "WD3", "KABAG_TU", "KAUR_AKADEMIK",
                             "KAUR_KEMAHASISWAAN", "KAUR_KEUANGAN", "STAFF_FAKULTAS"}

GetRequestById(requestId, userId) ==
  LET related(table) == {i \in Ids(table) : table[i].letter_request_id = requestId}
  IN
  IF requestId \notin Ids(requests) THEN << >>
  ELSE IF userId # NullId /\ userId \notin Ids(users) THEN << >>
  ELSE IF userId # NullId /\ ~canViewRequest(requests[requestId], userId) THEN << >>
  ELSE << [ id |-> requestId,
            request |-> requests[requestId],
            supporting_documents |-> related(documents),
            tracking_logs |-> related(logs),
            disposition_assignments |-> related(assignments) ] >>

(* getTrackingLogs: creator, current handler, a high-level role, or program  *)
(* staff of the program of the creator                                       *)
hasPermission(req, userId) ==
  \/ req.created_by_user_id = userId
  \/ req.current_handler_user_id = userId
  \/ users[userId].role \in {"ADMIN", "DEKAN", "WD1", "WD2", "WD3", "KABAG_TU"}
  \/ /\ req.created_by_user_id \in Ids(users)
     /\ users[userId].prodi = users[req.created_by_user_id].prodi
     /\ users[userId].role \in {"KAPRODI", "STAFF_PRODI"}

GetTrackingLogs(requestId, userId) ==
  LET ofRequest(r) == r.row.letter_request_id = requestId /\ r.row.user_id \in Ids(users)
  IN
  IF requestId \notin Ids(requests) THEN << >>
  ELSE IF userId # NullId /\ userId \notin Ids(users) THEN << >>
  ELSE IF userId # NullId /\ ~hasPermission(requests[requestId], userId) THEN << >>
  ELSE SelectSeq(RowsOf(logs), ofRequest)

(* getSupportingDocuments: creator, current handler or admin *)
hasDocumentPermission(req, userId) ==
  \/ req.created_by_user_id = userId
  \/ req.current_handler_user_id = userId
  \/ users[userId].role = "ADMIN"

GetSupportingDocuments(requestId, userId) ==
  LET ofRequest(r) == /\ r.row.letter_request_id = requestId
                      /\ r.row.uploaded_by_user_id \in Ids(users)
  IN
  IF userId # NullId /\ requestId \notin Ids(requests) THEN << >>
  ELSE IF userId # NullId /\ userId \notin Ids(users) THEN << >>
  ELSE IF userId # NullId /\ ~hasDocumentPermission(requests[requestId], userId) THEN << >>
  ELSE SelectSeq(RowsOf(documents), ofRequest)

(* getDispositionAssignments: creator, current handler or a user with an    *)
(* assignment of the request                                                *)
hasDirectPermission(req, userId) ==
  \/ req.created_by_user_id = userId
  \/ req.current_handler_user_id = userId

userAssignments(requestId, userId) ==
  {a \in Ids(assignments) :
     /\ assignments[a].letter_request_id = requestId
     /\ assignments[a].assigned_to_user_id = userId}

(* ORDER BY order_sequence ASC; rows of equal order_sequence in id order *)
RECURSIVE BySequence(_)
BySequence(S) ==
  IF S = {} THEN << >>
  ELSE LET first == CHOOSE a \in S : \A b \in S :
                       \/ assignments[a].order_sequence < assignments[b].order_sequence
                       \/ /\ assignments[a].order_sequence = assignments[b].order_sequence
                          /\ a <= b
       IN << [id |-> first, row |-> assignments[first]] >> \o BySequence(S \ {first})

GetDispositionAssignments(requestId, userId) ==
  IF userId # NullId /\ requestId \notin Ids(requests) THEN << >>
  ELSE IF /\ userId # NullId
          /\ ~hasDirectPermission(requests[requestId], userId)
          /\ userAssignments(requestId, userId) = {}
  THEN << >>
  ELSE BySequence({a \in Ids(assignments) : assignments[a].letter_request_id = requestId})

(* getRequests with the faculty roles left unrestricted, as the admin is *)
RoleConditionFacultyAll(userId, r) ==
  IF userId = NullId THEN TRUE
  ELSE IF userId \notin Ids(users) THEN FALSE
  ELSE LET user == users[userId] IN
    CASE user.role = "STUDENT" -> requests[r].created_by_user_id = userId
      [] user.role \in {"STAFF_PRODI", "KAPRODI"} ->
           user.prodi # NullText => students[requests[r].student_id].prodi = user.prodi
      [] OTHER -> TRUE
(* getRequests: the restriction that the role of the acting user adds *)
RoleCondition(userId, r) ==
  IF userId = NullId THEN TRUE
  ELSE IF userId \notin Ids(users) THEN FALSE
  ELSE LET user == users[userId] IN
    CASE user.role = "STUDENT" -> requests[r].created_by_user_id = userId
      [] user.role \in {"STAFF_PRODI", "KAPRODI"} ->
           user.prodi # NullText => students[requests[r].student_id].prodi = user.prodi
      [] user.role \in {"DEKAN", "STAFF_FAKULTAS", "WD1", "WD2", "WD3", "KABAG_TU",
                        "KAUR_AKADEMIK", "KAUR_KEMAHASISWAAN", "KAUR_KEUANGAN"} ->
           \/ requests[r].current_handler_user_id = userId
           \/ requests[r].created_by_user_id = userId
      [] user.role = "ADMIN" -> TRUE
      [] OTHER -> requests[r].created_by_user_id = userId

(* the filters on columns of the store; an absent filter is NullText or NullId *)
FilterCondition(filter, r) ==
  /\ filter.status # NullText => requests[r].status = filter.status
  /\ filter.priority # NullText => requests[r].priority = filter.priority
  /\ filter.created_by_user_id # NullId =>
        requests[r].created_by_user_id = filter.created_by_user_id
  /\ filter.current_handler_user_id # NullId =>
        requests[r].current_handler_user_id = filter.current_handler_user_id

NoFilter ==
  [ status |-> NullText, priority |-> NullText,
    created_by_user_id |-> NullId, current_handler_user_id |-> NullId ]

(* ORDER BY created_at DESC: the latest request first *)
RECURSIVE LatestFirst(_)
LatestFirst(S) ==
  IF S = {} THEN << >>
  ELSE LET latest == CHOOSE r \in S : \A q \in S : q <= r
       IN << [id |-> latest, row |-> requests[latest]] >> \o LatestFirst(S \ {latest})

GetRequests(filter, userId) ==
  LatestFirst({ r \in Ids(requests) :
                  /\ requests[r].student_id \in Ids(students)
                  /\ requests[r].created_by_user_id \in Ids(users)
                  /\ RoleCondition(userId, r)
                  /\ FilterCondition(filter, r) })
(* A call that finds no assignment reads no flag: the call without flags    *)
(* stands for all of them.                                                  *)
ProcessCalls ==
  { call \in ProcessDispositionInputs \X ActorInputs :
      \/ AssignmentFor(call[1].assignment_id, call[2])
      \/ (~call[1].escalate /\ ~call[1].flag_for_coordination) }

CreateLetterRequestCall ==
  /\ NothingInFlight
  /\ \E input \in CreateLetterRequestInputs, userId \in CreatorInputs :
        CreateLetterRequest(input, userId)

(* at most MaxUpdates status updates succeed *)
UpdateRequestStatusCall ==
  /\ NothingInFlight
  /\ \E call \in UpdateCalls :
        /\ UpdateRequestStatus(call[1], call[2])
        /\ Succeeds("updateRequestStatus") => Cardinality(StatusUpdates) < MaxUpdates

CreateDispositionCall ==
  /\ NothingInFlight
  /\ \E call \in DispositionCalls : CreateDisposition(call[1], call[2])

ProcessDispositionCall ==
  /\ NothingInFlight
  /\ \E call \in ProcessCalls : ProcessDisposition(call[1], call[2])

UploadFinalLetterCall ==
  /\ NothingInFlight
  /\ \E input \in UploadFinalLetterInputs, userId \in ActorInputs :
        UploadFinalLetter(input, userId)

SignLetterCall ==
  /\ NothingInFlight
  /\ \E input \in SignLetterInputs, userId \in ActorInputs :
        SignLetter(input, userId)

UploadSupportingDocumentCall ==
  /\ NothingInFlight
  /\ \E requestId \in RequestIdInputs, userId \in AuditActorInputs :
        UploadSupportingDocument(requestId, "transkrip.pdf", "url/transkrip.pdf", userId)

AddTrackingLogCall ==
  /\ NothingInFlight
  /\ \E input \in AddTrackingLogInputs, userId \in AuditActorInputs :
        AddTrackingLog(input, userId)

(* the handlers of the request lifecycle and of the disposition sequence *)
WorkflowNext ==
  \/ CreateUser
  \/ CreateStudent
  \/ CreateLetterRequestCall
  \/ UpdateRequestStatusCall
  \/ CreateDispositionCall
  \/ ProcessDispositionCall
  \/ UploadFinalLetterCall
  \/ SignLetterCall

(* every mutating handler but addTrackingLog *)
LifecycleNext ==
  \/ WorkflowNext
  \/ UploadSupportingDocumentCall

Next ==
  \/ LifecycleNext
  \/ AddTrackingLogCall

WorkflowSpec == Init /\ [][WorkflowNext]_vars

LifecycleSpec == Init /\ [][LifecycleNext]_vars

Spec == Init /\ [][Next]_vars

(* the workflow and the manual log entry *)
AuditNext ==
  \/ WorkflowNext
  \/ AddTrackingLogCall

AuditSpec == Init /\ [][AuditNext]_vars

(* ------------------------- documents and notes -------------------------- *)
(* A request up to its disposition, with supporting documents uploaded and  *)
(* manual log entries added at any point.                                   *)
DocumentNext ==
  \/ CreateUser
  \/ CreateStudent
  \/ CreateLetterRequestCall
  \/ UpdateRequestStatusCall
  \/ CreateDispositionCall
  \/ UploadSupportingDocumentCall
  \/ AddTrackingLogCall

DocumentSpec == Init /\ [][DocumentNext]_vars
(* --------------------------- the sequence run --------------------------- *)
(* A disposition is set up; once createDisposition has succeeded the        *)
(* request is touched by calls of processDisposition without a flag only,   *)
(* and every assignee of an un-completed assignment calls in the end.       *)
Disposed == \E i \in DOMAIN logs : logs[i].action_type = "DISPOSISI_ASSIGNED"

Open == {a \in Ids(assignments) : ~assignments[a].is_completed}

(* the log has room for the calls of the assignees *)
SequenceCreateDispositionCall ==
  /\ ~Disposed
  /\ CreateDispositionCall
  /\ Len(logs') + Cardinality({a \in Ids(assignments') : ~assignments'[a].is_completed}) <= MaxLogs

SequenceUpdateRequestStatusCall == ~Disposed /\ UpdateRequestStatusCall

PlainInput(assignmentId) ==
  [ assignment_id |-> assignmentId, notes |-> "note",
    escalate |-> FALSE, flag_for_coordination |-> FALSE ]

PlainProcessDispositionCall ==
  /\ Disposed
  /\ NothingInFlight
  /\ \E call \in ProcessCalls :
        /\ call[1] = PlainInput(call[1].assignment_id)
        /\ ProcessDisposition(call[1], call[2])

(* the assignee of un-completed assignment a calls processDisposition for it *)
AssigneeCalls(a) ==
  /\ Disposed
  /\ NothingInFlight
  /\ a \in Open
  /\ ProcessDisposition(PlainInput(a), assignments[a].assigned_to_user_id)

SequenceNext ==
  \/ CreateUser
  \/ CreateStudent
  \/ CreateLetterRequestCall
  \/ SequenceUpdateRequestStatusCall
  \/ SequenceCreateDispositionCall
  \/ PlainProcessDispositionCall

SequenceSpec ==
  /\ Init
  /\ [][SequenceNext]_vars
  /\ \A a \in 1 .. MaxAssignments : WF_vars(AssigneeCalls(a))
(* ----------------------------- two requests ----------------------------- *)
(* The directory is filled and program staff 1 has created two requests;    *)
(* one of them goes through its disposition while the other waits.          *)
PairRequest ==
  NewRequest([ student_id |-> 1, letter_type |-> "Surat Keterangan Aktif",
               purpose |-> "Keperluan beasiswa", priority |-> "NORMAL",
               supporting_documents |-> << >> ], 1, 2)

PairInit ==
  /\ users = SubSeq(UserInputs, 1, 6)
  /\ students = StudentInputs
  /\ requests = << PairRequest, PairRequest >>
  /\ documents = << >>
  /\ assignments = << >>
  /\ logs = << CreatedLogRow(1, 1), CreatedLogRow(2, 1) >>
  /\ last = Outcome("createLetterRequest", 2, "ok")
  /\ pending = << >>

PairNext ==
  \/ CreateUser
  \/ UpdateRequestStatusCall
  \/ CreateDispositionCall
  \/ ProcessDispositionCall

PairSpec == PairInit /\ [][PairNext]_vars
(* ------------------------------ archiving ------------------------------ *)
(* The workflow of a request that is forwarded to the dean and archived     *)
(* later: the status updates that succeed carry these statuses, in order.   *)
ArchiveStatusInputs == << "FORWARDED_TO_DEKAN", "ARCHIVED" >>

ArchiveUpdateCalls ==
  { call \in UpdateCalls :
      /\ Cardinality(StatusUpdates) < Len(ArchiveStatusInputs)
      /\ call[1].new_status = ArchiveStatusInputs[Cardinality(StatusUpdates) + 1] }

ArchiveUpdateRequestStatusCall ==
  /\ NothingInFlight
  /\ \E call \in ArchiveUpdateCalls : UpdateRequestStatus(call[1], call[2])

ArchiveNext ==
  \/ CreateUser
  \/ CreateStudent
  \/ CreateLetterRequestCall
  \/ ArchiveUpdateRequestStatusCall
  \/ CreateDispositionCall
  \/ ProcessDispositionCall
  \/ UploadFinalLetterCall
  \/ SignLetterCall

ArchiveSpec == Init /\ [][ArchiveNext]_vars

(* ------------------------ concurrent invocations ------------------------ *)
(* processDisposition in two steps, as its awaits allow: the invocation     *)
(* reads the assignment and the request, and later routes and writes.       *)
(* Between the two steps another invocation may read or write.              *)
MaxPending == 2

(* the invocations that overlap carry no flag *)
ConcurrentInputs ==
  { input \in ProcessDispositionInputs :
      ~input.escalate /\ ~input.flag_for_coordination }

(* the first SELECT and the fetch of the request *)
BeginProcessDisposition(input, userId) ==
  LET op == "processDisposition"
      aid == input.assignment_id
      rid == assignments[aid].letter_request_id
  IN
  IF ~AssignmentFor(aid, userId)
  THEN Fails(op, aid, ErrAssignment) /\ NothingInFlight
  ELSE IF rid \notin Ids(requests)
  THEN Fails(op, aid, ErrRequestNotFound) /\ NothingInFlight
  ELSE
    /\ Len(pending) < MaxPending
    /\ pending' = Append(pending,
         [input |-> input, userId |-> userId, currentRequest |-> requests[rid]])
    /\ UNCHANGED <<users, students, requests, documents, assignments, logs, last>>

(* pending without its i-th invocation *)
Returned(i) ==
  SubSeq(pending, 1, i - 1) \o SubSeq(pending, i + 1, Len(pending))

(* the routing, the two UPDATEs and the INSERT of the log row, with the     *)
(* request as it was read                                                   *)
FinishProcessDisposition(i) ==
  LET op == "processDisposition"
      input == pending[i].input
      userId == pending[i].userId
      currentRequest == pending[i].currentRequest
      aid == input.assignment_id
      rid == assignments[aid].letter_request_id
  IN
  /\ Len(logs) < MaxLogs
  /\ \E route \in Routing(input, assignments[aid], currentRequest) :
       /\ assignments' = CompleteAssignment(aid, input.notes)
       /\ requests' = [requests EXCEPT ![rid].status = route[1],
                                       ![rid].current_handler_user_id = route[2]]
       /\ logs' = Append(logs,
            ProcessLogRow(input, userId, rid, currentRequest.status, route[1]))
  /\ last' = Outcome(op, aid, "ok")
  /\ pending' = Returned(i)
  /\ UNCHANGED <<users, students, documents>>

BeginProcessDispositionCall ==
  \E input \in ConcurrentInputs, userId \in ActorInputs :
     /\ <<input, userId>> \in ProcessCalls
     /\ BeginProcessDisposition(input, userId)

FinishProcessDispositionCall ==
  \E i \in DOMAIN pending : FinishProcessDisposition(i)

(* the handlers that set up a disposition run as a whole; the invocations   *)
(* of processDisposition overlap                                            *)
ConcurrentNext ==
  \/ CreateUser
  \/ CreateStudent
  \/ CreateLetterRequestCall
  \/ UpdateRequestStatusCall
  \/ CreateDispositionCall
  \/ BeginProcessDispositionCall
  \/ FinishProcessDispositionCall

ConcurrentSpec == Init /\ [][ConcurrentNext]_vars
(* ------------------------------- reading -------------------------------- *)
(* The disposition workflow over a directory with a second-line officer,    *)
(* and the reads called by no user, by every user and by an unknown id.     *)
ReadUserInputs == << [role |-> "STAFF_PRODI",    prodi |-> "TI"],
                     [role |-> "KAPRODI",        prodi |-> "TI"],
                     [role |-> "WD1",            prodi |-> NullText],
                     [role |-> "KAUR_AKADEMIK",  prodi |-> NullText],
                     [role |-> "STAFF_FAKULTAS", prodi |-> NullText],
                     [role |-> "DEKAN",          prodi |-> NullText],
                     [role |-> "ADMIN",          prodi |-> NullText] >>

ReadCreateUser ==
  /\ NothingInFlight
  /\ Len(users) < Len(ReadUserInputs)
  /\ users' = Append(users, ReadUserInputs[Len(users) + 1])
  /\ last' = Outcome("createUser", Len(users) + 1, "ok")
  /\ UNCHANGED <<students, requests, documents, assignments, logs>>

ReadActorInputs == {NullId} \cup (1 .. (Len(users) + 1))

Returns(op, id, rows) ==
  /\ NothingInFlight
  /\ last' = Outcome(op, id, IF rows = << >> THEN "nothing" ELSE "rows")
  /\ UNCHANGED db

GetRequestsCall ==
  \E userId \in ReadActorInputs :
     Returns("getRequests", NullId, GetRequests(NoFilter, userId))

GetRequestByIdCall ==
  \E requestId \in RequestIdInputs, userId \in ReadActorInputs :
     Returns("getRequestById", requestId, GetRequestById(requestId, userId))

GetTrackingLogsCall ==
  \E requestId \in RequestIdInputs, userId \in ReadActorInputs :
     Returns("getTrackingLogs", requestId, GetTrackingLogs(requestId, userId))

GetSupportingDocumentsCall ==
  \E requestId \in RequestIdInputs, userId \in ReadActorInputs :
     Returns("getSupportingDocuments", requestId, GetSupportingDocuments(requestId, userId))

GetDispositionAssignmentsCall ==
  \E requestId \in RequestIdInputs, userId \in ReadActorInputs :
     Returns("getDispositionAssignments", requestId,
             GetDispositionAssignments(requestId, userId))

ReadNext ==
  \/ ReadCreateUser
  \/ CreateStudent
  \/ CreateLetterRequestCall
  \/ UpdateRequestStatusCall
  \/ CreateDispositionCall
  \/ ProcessDispositionCall
  \/ GetRequestsCall
  \/ GetRequestByIdCall
  \/ GetTrackingLogsCall
  \/ GetSupportingDocumentsCall
  \/ GetDispositionAssignmentsCall

ReadSpec == Init /\ [][ReadNext]_vars
(* ------------------------------- listing -------------------------------- *)
(* getRequests with filters, called by users of every kind of role over a   *)
(* request that is created, forwarded, handed to an officer or archived.    *)
ListingUserInputs == << [role |-> "STAFF_PRODI",    prodi |-> "TI"],
                        [role |-> "KAPRODI",        prodi |-> "TI"],
                        [role |-> "WD1",            prodi |-> NullText],
                        [role |-> "STAFF_PRODI",    prodi |-> "SI"],
                        [role |-> "STUDENT",        prodi |-> NullText],
                        [role |-> "DEKAN",          prodi |-> NullText],
                        [role |-> "ADMIN",          prodi |-> NullText] >>

ListingCreateUser ==
  /\ NothingInFlight
  /\ Len(users) < Len(ListingUserInputs)
  /\ users' = Append(users, ListingUserInputs[Len(users) + 1])
  /\ last' = Outcome("createUser", Len(users) + 1, "ok")
  /\ UNCHANGED <<students, requests, documents, assignments, logs>>

(* no filter, a status, a priority, a creator, a handler, and two at once *)
FilterInputs ==
  { NoFilter,
    [NoFilter EXCEPT !.status = "DRAFT"],
    [NoFilter EXCEPT !.status = "FORWARDED_TO_DEKAN"],
    [NoFilter EXCEPT !.priority = "URGENT"],
    [NoFilter EXCEPT !.created_by_user_id = 1],
    [NoFilter EXCEPT !.current_handler_user_id = 3],
    [NoFilter EXCEPT !.status = "PROCESSED_BY_WD1", !.current_handler_user_id = 3] }

GetFilteredRequestsCall ==
  \E filter \in FilterInputs, userId \in ReadActorInputs :
     Returns("getRequests", userId, GetRequests(filter, userId))

ListingNext ==
  \/ ListingCreateUser
  \/ CreateStudent
  \/ CreateLetterRequestCall
  \/ UpdateRequestStatusCall
  \/ GetFilteredRequestsCall

ListingSpec == Init /\ [][ListingNext]_vars

(* ------------------------------- intake -------------------------------- *)
(* Request creation over directories of several programs: any user and any  *)
(* student of these inputs may be created, in any order.                    *)
MaxIntakeUsers == 3
MaxIntakeStudents == 2

IntakeUserInputs == { [role |-> "STAFF_PRODI", prodi |-> "TI"],
                      [role |-> "KAPRODI",     prodi |-> "TI"],
                      [role |-> "KAPRODI",     prodi |-> "SI"] }

IntakeStudentInputs == { [prodi |-> "TI"], [prodi |-> "SI"] }

CreateUserWith(input) ==
  /\ NothingInFlight
  /\ Len(users) < MaxIntakeUsers
  /\ users' = Append(users, input)
  /\ last' = Outcome("createUser", Len(users) + 1, "ok")
  /\ UNCHANGED <<students, requests, documents, assignments, logs>>

CreateStudentWith(input) ==
  /\ NothingInFlight
  /\ Len(students) < MaxIntakeStudents
  /\ students' = Append(students, input)
  /\ last' = Outcome("createStudent", Len(students) + 1, "ok")
  /\ UNCHANGED <<users, requests, documents, assignments, logs>>

IntakeDocumentInputs ==
  { << >>,
    << [file_name |-> "ktm.pdf", file_url |-> "url/ktm.pdf"] >>,
    << [file_name |-> "ktm.pdf", file_url |-> "url/ktm.pdf"],
       [file_name |-> "krs.pdf", file_url |-> "url/krs.pdf"] >> }

IntakeRequestInputs ==
  [ student_id : StudentIdInputs,
    letter_type : {"Surat Keterangan Aktif"},
    purpose : {"Keperluan beasiswa"},
    priority : {"NORMAL", "URGENT"},
    supporting_documents : IntakeDocumentInputs ]

IntakeCreateUserCall == \E input \in IntakeUserInputs : CreateUserWith(input)

IntakeCreateStudentCall == \E input \in IntakeStudentInputs : CreateStudentWith(input)

IntakeCreateLetterRequestCall ==
  /\ NothingInFlight
  /\ \E input \in IntakeRequestInputs, userId \in Ids(users) :
        CreateLetterRequest(input, userId)

IntakeNext ==
  \/ IntakeCreateUserCall
  \/ IntakeCreateStudentCall
  \/ IntakeCreateLetterRequestCall

IntakeSpec == Init /\ [][IntakeNext]_vars

(* ======================================================================= *)
(*                               Properties                                *)
(* ======================================================================= *)

RequestsOf(table, requestId) ==
  {i \in Ids(table) : table[i].letter_request_id = requestId}

Greatest(S) == CHOOSE x \in S : \A y \in S : y <= x

(* the log rows of a request that carry a new_status *)
StatusRows(requestId) ==
  {i \in RequestsOf(logs, requestId) : logs[i].new_status # NullText}

Uncompleted(requestId) ==
  {a \in RequestsOf(assignments, requestId) : ~assignments[a].is_completed}

LeastSequence(S) ==
  {a \in S : \A b \in S : assignments[a].order_sequence <= assignments[b].order_sequence}

(* the step completes assignment a *)
Completes(a) ==
  /\ a \in Ids(assignments)
  /\ ~assignments[a].is_completed
  /\ assignments'[a].is_completed

(* C1: under the lifecycle handlers (every mutating handler but addTrackingLog) every
   request has a log row whose new_status is the request's status, and the latest row
   of the request that carries a new_status carries the request's status. *)
C1_LogCarriesStatus ==
  \A r \in Ids(requests) :
    /\ \E i \in StatusRows(r) : logs[i].new_status = requests[r].status
    /\ logs[Greatest(StatusRows(r))].new_status = requests[r].status

(* a processed request whose latest log row is a supporting document (no new_status) *)
C1_Witness ==
  \E r \in Ids(requests) :
    /\ requests[r].status \in {"TTD_READY", "ESCALATED"}
    /\ Cardinality(StatusRows(r)) >= 4
    /\ logs[Len(logs)].new_status = NullText

(* C2: for every request in a DISPOSISI_TO_ status exactly one un-completed assignment
   has the least order_sequence of its un-completed assignments, and it is assigned to
   the request's current handler. *)
C2_OneActiveAssignment ==
  \A r \in Ids(requests) :
    requests[r].status \in DispositionStatuses =>
      /\ Cardinality(LeastSequence(Uncompleted(r))) = 1
      /\ \A a \in LeastSequence(Uncompleted(r)) :
           assignments[a].assigned_to_user_id = requests[r].current_handler_user_id

(* C3: whenever processDisposition completes an assignment, no assignment of the same
   request with a smaller order_sequence is still un-completed. *)
C3_AscendingCompletion ==
  [][ \A a \in Ids(assignments) :
        Completes(a) =>
          \A b \in RequestsOf(assignments, assignments[a].letter_request_id) :
             assignments[b].order_sequence < assignments[a].order_sequence
               => assignments[b].is_completed ]_vars

(* C4: a processDisposition call on an assignment that is already completed, by any
   user and with any flags, fails with the NotFound error and changes no request,
   assignment or tracking log. *)
C4_CompletedIsRefused ==
  [][ ( /\ last'.op = "processDisposition"
        /\ last'.id \in Ids(assignments)
        /\ assignments[last'.id].is_completed )
      => /\ last'.result = ErrAssignment
         /\ UNCHANGED <<requests, assignments, logs>> ]_vars

(* the assignee called again for the assignment it completed, and was refused *)
C4_Witness ==
  /\ last.op = "processDisposition"
  /\ last.result = ErrAssignment
  /\ last.id \in Ids(assignments)
  /\ assignments[last.id].is_completed
  /\ assignments[last.id].completed_at = "now"

(* C5: a processDisposition call for an assignment id that does not exist, or by a
   user the assignment is not assigned to, fails with the NotFound error and changes
   no request, assignment or tracking log. *)
C5_NotAssignedIsRefused ==
  [][ last'.op = "processDisposition" =>
        \A userId \in ActorInputs :
          ( \/ last'.id \notin Ids(assignments)
            \/ assignments[last'.id].assigned_to_user_id # userId )
          => \A input \in ProcessDispositionInputs :
               (input.assignment_id = last'.id /\ ProcessDisposition(input, userId))
               => /\ last'.result = ErrAssignment
                  /\ UNCHANGED <<requests, assignments, logs>> ]_vars

(* a call for an open assignment was refused: the caller was not its assignee *)
C5_Witness ==
  /\ last.op = "processDisposition"
  /\ last.result = ErrAssignment
  /\ last.id \in Ids(assignments)
  /\ ~assignments[last.id].is_completed

(* C6: a mutating handler that returns an error leaves users, students, requests,
   documents, assignments and tracking logs as they were. *)
C6_FailureChangesNothing ==
  [][ last'.result # "ok" => UNCHANGED db ]_vars

(* C7: createDisposition on a request whose status is not FORWARDED_TO_DEKAN, or by a
   user whose role is not dean, fails, inserts no assignment, changes no request and
   writes no tracking log. *)
C7_DispositionRefused ==
  [][ (last'.op = "createDisposition" /\ last'.id \in Ids(requests)) =>
        \A userId \in ActorInputs :
          ( \/ requests[last'.id].status # "FORWARDED_TO_DEKAN"
            \/ users[userId].role # "DEKAN" )
          => \A input \in CreateDispositionInputs :
               (input.request_id = last'.id /\ CreateDisposition(input, userId))
               => /\ last'.result # "ok"
                  /\ UNCHANGED <<requests, assignments, logs>> ]_vars

(* the dean was refused on a request that left FORWARDED_TO_DEKAN by a disposition *)
C7_Witness ==
  /\ last.op = "createDisposition"
  /\ last.result = ErrDispositionStatus
  /\ last.id \in Ids(requests)
  /\ requests[last.id].status \in DispositionStatuses
  /\ RequestsOf(assignments, last.id) # {}

(* the rows a createDisposition step inserted *)
Inserted == Ids(assignments') \ Ids(assignments)

LeastInserted ==
  {a \in Inserted :
     \A b \in Inserted : assignments'[a].order_sequence <= assignments'[b].order_sequence}

(* C8: a successful createDisposition makes the assignee with the smallest
   order_sequence of the list the current handler, sets the DISPOSISI_TO_ status of
   that assignee's role, stores the instructions and writes one DISPOSISI_ASSIGNED log
   with previous_status FORWARDED_TO_DEKAN. *)
C8_FirstSequenceHandles ==
  [][ Succeeds("createDisposition") =>
        LET r == last'.id
            handler == requests'[r].current_handler_user_id
        IN /\ handler \in {assignments'[a].assigned_to_user_id : a \in LeastInserted}
           /\ requests'[r].status = DispositionStatusFor(users[handler].role)
           /\ \A a \in Inserted :
                requests'[r].dekan_instructions = assignments'[a].instructions
           /\ Len(logs') = Len(logs) + 1
           /\ logs'[Len(logs')].action_type = "DISPOSISI_ASSIGNED"
           /\ logs'[Len(logs')].previous_status = "FORWARDED_TO_DEKAN" ]_vars

(* a processDisposition input with neither flag set *)
NoFlags(assignmentId) ==
  [ assignment_id |-> assignmentId, notes |-> "note",
    escalate |-> FALSE, flag_for_coordination |-> FALSE ]

(* the step is a successful processDisposition call without flags on assignment a *)
ProcessesPlainly(a) ==
  /\ Succeeds("processDisposition")
  /\ last'.id = a
  /\ \E userId \in ActorInputs : ProcessDisposition(NoFlags(a), userId)

(* C9: processDisposition with no flags, while the request has an un-completed
   assignment with a greater order_sequence, completes the assignment, hands the
   request to the assignee of the least such assignment, keeps the status and writes
   one PROCESSED log "Disposition assignment completed". *)
C9_MovesToNextAssignment ==
  [][ \A a \in Ids(assignments) :
        (ProcessesPlainly(a) /\ LaterAssignments(assignments[a]) # {})
        => LET r == assignments[a].letter_request_id
           IN /\ assignments'[a].is_completed
              /\ requests'[r].current_handler_user_id \in
                   {assignments[b].assigned_to_user_id :
                      b \in LeastSequence(LaterAssignments(assignments[a]))}
              /\ requests'[r].status = requests[r].status
              /\ Len(logs') = Len(logs) + 1
              /\ logs'[Len(logs')].action_type = "PROCESSED"
              /\ logs'[Len(logs')].description = "Disposition assignment completed" ]_vars

(* C10: processDisposition with no flags on the last remaining assignment sets
   TTD_READY and a dean as handler and writes one PROCESSED log "All disposition
   assignments completed, ready for signing"; whenever that log is written every
   assignment of the request is completed. *)
C10_LastAssignmentReady ==
  [][ \A a \in Ids(assignments) :
        LET r == assignments[a].letter_request_id
            row == logs'[Len(logs')]
        IN /\ (ProcessesPlainly(a) /\ Uncompleted(r) = {a})
              => /\ requests'[r].status = "TTD_READY"
                 /\ requests'[r].current_handler_user_id \in UsersWithRole("DEKAN")
                 /\ Len(logs') = Len(logs) + 1
                 /\ row.action_type = "PROCESSED"
                 /\ row.description =
                      "All disposition assignments completed, ready for signing"
           /\ ( /\ Succeeds("processDisposition")
                /\ last'.id = a
                /\ row.description =
                     "All disposition assignments completed, ready for signing" )
              => \A b \in RequestsOf(assignments', r) : assignments'[b].is_completed ]_vars

(* the processDisposition inputs for assignment a *)
InputsFor(a) == {input \in ProcessDispositionInputs : input.assignment_id = a}

(* the step is a successful processDisposition call with the input `input` *)
Processes(input) ==
  /\ Succeeds("processDisposition")
  /\ last'.id = input.assignment_id
  /\ \E userId \in ActorInputs : ProcessDisposition(input, userId)

(* C11: processDisposition with escalate set, whatever flag_for_coordination is, makes
   the request ESCALATED with an admin as handler and writes one ESCALATED log "Request
   escalated to admin"; otherwise with flag_for_coordination set it makes the request
   FORWARDED_TO_DEKAN with a dean as handler and writes one PROCESSED log "Request
   flagged for dean coordination"; only with neither flag set is the handler taken from
   the search for the next assignment. *)
C11_BranchPriority ==
  [][ \A a \in Ids(assignments) : \A input \in InputsFor(a) :
        Processes(input) =>
          LET r == assignments[a].letter_request_id
              row == logs'[Len(logs')]
          IN /\ Len(logs') = Len(logs) + 1
             /\ IF input.escalate
                THEN /\ requests'[r].status = "ESCALATED"
                     /\ requests'[r].current_handler_user_id \in UsersWithRole("ADMIN")
                     /\ row.action_type = "ESCALATED"
                     /\ row.description = "Request escalated to admin"
                ELSE IF input.flag_for_coordination
                THEN /\ requests'[r].status = "FORWARDED_TO_DEKAN"
                     /\ requests'[r].current_handler_user_id \in UsersWithRole("DEKAN")
                     /\ row.action_type = "PROCESSED"
                     /\ row.description = "Request flagged for dean coordination"
                ELSE /\ row.action_type = "PROCESSED"
                     /\ requests'[r].current_handler_user_id \in
                          IF NextAssignment(assignments[a]) # {}
                          THEN {assignments[b].assigned_to_user_id :
                                  b \in NextAssignment(assignments[a])}
                          ELSE UsersWithRole("DEKAN") ]_vars

(* C12: an operation that finds no user of the role it must route to (admin for an
   escalation, dean for uploadFinalLetter, faculty staff for signLetter) returns an
   error and changes nothing, and a successful processDisposition never leaves the
   request without a current handler. *)
C12_MissingRoleFails ==
  [][ /\ \A a \in Ids(assignments) : \A input \in InputsFor(a) :
           ( /\ last'.op = "processDisposition"
             /\ last'.id = a
             /\ input.escalate
             /\ UsersWithRole("ADMIN") = {}
             /\ \E userId \in ActorInputs : ProcessDisposition(input, userId) )
           => (last'.result # "ok" /\ UNCHANGED db)
      /\ (Succeeds("processDisposition") /\ last'.id \in Ids(assignments))
           => requests'[assignments[last'.id].letter_request_id].current_handler_user_id
                # NullId
      /\ (last'.op = "uploadFinalLetter" /\ UsersWithRole("DEKAN") = {})
           => (last'.result # "ok" /\ UNCHANGED db)
      /\ (last'.op = "signLetter" /\ UsersWithRole("STAFF_FAKULTAS") = {})
           => (last'.result # "ok" /\ UNCHANGED db) ]_vars

(* C13: signLetter by a user that is not a dean, or on a request that is not TTD_READY,
   or on a request without a final letter, is rejected and changes neither the
   request nor the tracking logs. *)
C13_SignOnlyWhenReady ==
  [][ (last'.op = "signLetter" /\ last'.id \in Ids(requests)) =>
        \A userId \in ActorInputs :
          ( \/ users[userId].role # "DEKAN"
            \/ requests[last'.id].status # "TTD_READY"
            \/ requests[last'.id].final_letter_url \in {NullText, ""} )
          => \A input \in SignLetterInputs :
               (input.request_id = last'.id /\ SignLetter(input, userId))
               => /\ last'.result # "ok"
                  /\ UNCHANGED <<requests, logs>> ]_vars

(* the dean was refused on a TTD_READY request that has no final letter *)
C13_Witness ==
  /\ last.op = "signLetter"
  /\ last.result = ErrNoFinalLetter
  /\ requests[last.id].status = "TTD_READY"

(* C14: a successful signLetter sets TTD_DONE and a faculty-staff user as handler and
   appends two log rows of the signing dean: a SIGNED row from TTD_READY to TTD_DONE,
   then a FORWARDED row from TTD_DONE to TTD_DONE. *)
C14_SignedAndForwarded ==
  [][ Succeeds("signLetter") =>
        \A userId \in ActorInputs : \A input \in SignLetterInputs :
          (input.request_id = last'.id /\ SignLetter(input, userId)) =>
            LET r == last'.id
                n == Len(logs)
            IN /\ users[userId].role = "DEKAN"
               /\ requests'[r].status = "TTD_DONE"
               /\ requests'[r].current_handler_user_id \in UsersWithRole("STAFF_FAKULTAS")
               /\ Len(logs') = n + 2
               /\ SubSeq(logs', 1, n) = logs
               /\ logs'[n + 1].action_type = "SIGNED"
               /\ logs'[n + 1].previous_status = "TTD_READY"
               /\ logs'[n + 1].new_status = "TTD_DONE"
               /\ logs'[n + 2].action_type = "FORWARDED"
               /\ logs'[n + 2].previous_status = "TTD_DONE"
               /\ logs'[n + 2].new_status = "TTD_DONE"
               /\ \A i \in {n + 1, n + 2} :
                    logs'[i].user_id = userId /\ logs'[i].letter_request_id = r ]_vars

(* the dean signed a letter *)
C14_Witness ==
  /\ last.op = "signLetter"
  /\ last.result = "ok"
  /\ requests[last.id].status = "TTD_DONE"

(* C15: uploadFinalLetter by a user that is not the request's current handler, or on a
   request whose status is not one of the seven PROCESSED_BY_ statuses, fails and
   changes neither the request (final_letter_url, status, handler) nor the logs. *)
C15_UploadOnlyByHandler ==
  [][ (last'.op = "uploadFinalLetter" /\ last'.id \in Ids(requests)) =>
        \A userId \in ActorInputs :
          ( \/ requests[last'.id].current_handler_user_id # userId
            \/ requests[last'.id].status \notin
                 {"PROCESSED_BY_WD1", "PROCESSED_BY_WD2", "PROCESSED_BY_WD3",
                  "PROCESSED_BY_KABAG_TU", "PROCESSED_BY_KAUR_AKADEMIK",
                  "PROCESSED_BY_KAUR_KEMAHASISWAAN", "PROCESSED_BY_KAUR_KEUANGAN"} )
          => \A input \in UploadFinalLetterInputs :
               (input.request_id = last'.id /\ UploadFinalLetter(input, userId))
               => /\ last'.result # "ok"
                  /\ UNCHANGED <<requests, logs>> ]_vars

(* the current handler was refused: the request is in a disposition status *)
C15_Witness ==
  /\ last.op = "uploadFinalLetter"
  /\ last.result = ErrUploadStatus
  /\ requests[last.id].status \in DispositionStatuses

(* C16: a successful uploadFinalLetter stores the file URL of the input, sets TTD_READY
   and a dean as handler, and appends one DOCUMENT_UPLOADED log from the status before
   the call to TTD_READY. *)
C16_FinalLetterStored ==
  [][ Succeeds("uploadFinalLetter") =>
        \A userId \in ActorInputs : \A input \in UploadFinalLetterInputs :
          (input.request_id = last'.id /\ UploadFinalLetter(input, userId)) =>
            LET r == last'.id
                row == logs'[Len(logs')]
            IN /\ requests'[r].final_letter_url = input.file_url
               /\ requests'[r].status = "TTD_READY"
               /\ requests'[r].current_handler_user_id \in UsersWithRole("DEKAN")
               /\ Len(logs') = Len(logs) + 1
               /\ SubSeq(logs', 1, Len(logs)) = logs
               /\ row.action_type = "DOCUMENT_UPLOADED"
               /\ row.letter_request_id = r
               /\ row.previous_status = requests[r].status
               /\ row.new_status = "TTD_READY" ]_vars

(* the officer that processed the request uploaded the final letter *)
C16_Witness ==
  /\ last.op = "uploadFinalLetter"
  /\ last.result = "ok"
  /\ requests[last.id].final_letter_url = "url/final.pdf"
  /\ logs[Len(logs)].previous_status = "PROCESSED_BY_WD1"

(* C17: a successful createLetterRequest appends a DRAFT request with the student,
   letter type, purpose and priority of the input, created by the acting user and
   handled by a program chair of the student's program; it inserts every document of
   the input for that request, uploaded by the creator, and one CREATED log with no
   previous_status and new_status DRAFT. *)
C17_RequestCreated ==
  [][ Succeeds("createLetterRequest") =>
        \A userId \in Ids(users) : \A input \in IntakeRequestInputs :
          CreateLetterRequest(input, userId) =>
            LET r == last'.id
                n == Len(documents)
                docs == input.supporting_documents
                row == logs'[Len(logs')]
                handler == requests'[r].current_handler_user_id
            IN /\ Len(requests') = Len(requests) + 1
               /\ r = Len(requests')
               /\ SubSeq(requests', 1, Len(requests)) = requests
               /\ requests'[r].status = "DRAFT"
               /\ requests'[r].student_id = input.student_id
               /\ requests'[r].letter_type = input.letter_type
               /\ requests'[r].purpose = input.purpose
               /\ requests'[r].priority = input.priority
               /\ requests'[r].created_by_user_id = userId
               /\ handler \in Ids(users)
               /\ users[handler].role = "KAPRODI"
               /\ users[handler].prodi = students[input.student_id].prodi
               /\ Len(documents') = n + Len(docs)
               /\ SubSeq(documents', 1, n) = documents
               /\ \A i \in DOMAIN docs :
                    /\ documents'[n + i].letter_request_id = r
                    /\ documents'[n + i].file_name = docs[i].file_name
                    /\ documents'[n + i].file_url = docs[i].file_url
                    /\ documents'[n + i].uploaded_by_user_id = userId
               /\ Len(logs') = Len(logs) + 1
               /\ SubSeq(logs', 1, Len(logs)) = logs
               /\ row.letter_request_id = r
               /\ row.user_id = userId
               /\ row.action_type = "CREATED"
               /\ row.previous_status = NullText
               /\ row.new_status = "DRAFT" ]_vars

(* a request with two documents was created while a chair of another program exists *)
C17_Witness ==
  /\ last.op = "createLetterRequest"
  /\ last.result = "ok"
  /\ Len(documents) = 2
  /\ \E u \in UsersWithRole("KAPRODI") :
       users[u].prodi # students[requests[last.id].student_id].prodi

(* C18: createLetterRequest for a student that does not exist, or for a student whose
   program has no program chair, fails and creates no request, document or log. *)
C18_NoStudentOrChair ==
  [][ last'.op = "createLetterRequest" =>
        \A userId \in Ids(users) : \A input \in IntakeRequestInputs :
          ( /\ \/ input.student_id \notin Ids(students)
               \/ ~ \E u \in Ids(users) :
                      /\ users[u].role = "KAPRODI"
                      /\ users[u].prodi = students[input.student_id].prodi
            /\ CreateLetterRequest(input, userId) )
          => /\ last'.result # "ok"
             /\ UNCHANGED <<requests, documents, logs>> ]_vars

(* the call was refused although a chair exists: none of the student's program *)
C18_Witness ==
  /\ last.op = "createLetterRequest"
  /\ last.result = ErrNoKaprodi
  /\ UsersWithRole("KAPRODI") # {}
  /\ requests = << >>

(* C19: updateRequestStatus for a request id that does not exist, or by a user that is
   neither the creator nor the current handler of the request, fails and changes
   neither the request nor the tracking logs. *)
C19_UpdateOnlyByCreatorOrHandler ==
  [][ last'.op = "updateRequestStatus" =>
        \A userId \in ActorInputs :
          ( \/ last'.id \notin Ids(requests)
            \/ /\ requests[last'.id].created_by_user_id # userId
               /\ requests[last'.id].current_handler_user_id # userId )
          => \A input \in UpdateRequestStatusInputs :
               (input.request_id = last'.id /\ UpdateRequestStatus(input, userId))
               => /\ last'.result # "ok"
                  /\ UNCHANGED <<requests, logs>> ]_vars

(* a user that neither created nor handles the request was refused *)
C19_Witness ==
  /\ last.op = "updateRequestStatus"
  /\ last.result = ErrUpdatePermission
  /\ requests[last.id].status = "DRAFT"

(* C20: a successful updateRequestStatus stores the new status, sets the handler to
   next_handler_user_id when the input has one and keeps it otherwise, and appends one
   log from the status before the call to the new status with the notes of the input
   (null when the input has none). *)
C20_StatusUpdated ==
  [][ Succeeds("updateRequestStatus") =>
        \A userId \in ActorInputs : \A input \in UpdateRequestStatusInputs :
          (input.request_id = last'.id /\ UpdateRequestStatus(input, userId)) =>
            LET r == last'.id
                row == logs'[Len(logs')]
            IN /\ requests'[r].status = input.new_status
               /\ requests'[r].current_handler_user_id =
                    IF input.next_handler_user_id # NullId
                    THEN input.next_handler_user_id
                    ELSE requests[r].current_handler_user_id
               /\ Len(logs') = Len(logs) + 1
               /\ SubSeq(logs', 1, Len(logs)) = logs
               /\ row.letter_request_id = r
               /\ row.previous_status = requests[r].status
               /\ row.new_status = input.new_status
               /\ row.notes = input.notes ]_vars

(* a status was stored with a new handler and notes *)
C20_Witness ==
  /\ last.op = "updateRequestStatus"
  /\ last.result = "ok"
  /\ requests[last.id].status = "FORWARDED_TO_DEKAN"
  /\ requests[last.id].current_handler_user_id \in UsersWithRole("DEKAN")
  /\ logs[Len(logs)].notes = "note"

(* C21: in every reachable state the current handler of a request, when    *)
(* set, has the role its status names: the dean for TTD_READY, faculty      *)
(* staff for TTD_DONE, the program chair for DRAFT and, for a status        *)
(* DISPOSISI_TO_<ROLE>, that role.                                          *)
HandlerRoleFor(status) ==
  CASE status = "TTD_READY" -> {"DEKAN"}
    [] status = "TTD_DONE" -> {"STAFF_FAKULTAS"}
    [] status = "DRAFT" -> {"KAPRODI"}
    [] status \in DispositionStatuses ->
         {role \in UserRole : DispositionStatusFor(role) = status}
    [] OTHER -> UserRole

C21_HandlerRoleMatchesStatus ==
  \A r \in Ids(requests) :
     requests[r].current_handler_user_id # NullId =>
        /\ requests[r].current_handler_user_id \in Ids(users)
        /\ users[requests[r].current_handler_user_id].role
              \in HandlerRoleFor(requests[r].status)

(* C22: ARCHIVED is terminal: once a request has status ARCHIVED, no step   *)
(* (updateRequestStatus, createDisposition, processDisposition,             *)
(* uploadFinalLetter, signLetter) changes its status or its current handler *)
(* again.                                                                   *)
C22_ArchivedIsTerminal ==
  [][ \A r \in Ids(requests) :
        requests[r].status = "ARCHIVED" =>
           /\ requests'[r].status = "ARCHIVED"
           /\ requests'[r].current_handler_user_id = requests[r].current_handler_user_id ]_vars

(* C23: within one request no two assignments share an order_sequence,      *)
(* also after a second createDisposition on a request that came back to     *)
(* FORWARDED_TO_DEKAN through flag_for_coordination.                        *)
C23_DistinctSequences ==
  \A a, b \in Ids(assignments) :
     (/\ a # b
      /\ assignments[a].letter_request_id = assignments[b].letter_request_id)
        => assignments[a].order_sequence # assignments[b].order_sequence

(* C24: an assignment, once created, keeps its request, assignee, assigner, *)
(* instructions and order_sequence and is never deleted; its only change is *)
(* a successful processDisposition of that assignment, which takes          *)
(* is_completed from false to true and sets completed_at and notes; a       *)
(* completed assignment never changes again.                                *)
C24_AssignmentFrame ==
  [][ \A a \in Ids(assignments) :
        /\ a \in Ids(assignments')
        /\ assignments'[a].letter_request_id = assignments[a].letter_request_id
        /\ assignments'[a].assigned_to_user_id = assignments[a].assigned_to_user_id
        /\ assignments'[a].assigned_by_user_id = assignments[a].assigned_by_user_id
        /\ assignments'[a].instructions = assignments[a].instructions
        /\ assignments'[a].order_sequence = assignments[a].order_sequence
        /\ assignments[a].is_completed => assignments'[a] = assignments[a]
        /\ assignments'[a] # assignments[a] =>
              /\ Succeeds("processDisposition")
              /\ last'.id = a
              /\ assignments'[a].is_completed
              /\ assignments'[a].completed_at # NullText ]_vars

(* an assignment has been completed next to one that is still open *)
C24_Witness ==
  /\ last.op = "processDisposition"
  /\ last.result = "ok"
  /\ assignments[last.id].is_completed
  /\ assignments[last.id].completed_at # NullText
  /\ \E b \in Ids(assignments) : ~assignments[b].is_completed

(* C25: the tracking log is append-only: no step removes a row or changes a *)
(* field of a row; the log only grows at its end.                           *)
C25_LogAppendOnly ==
  [][ /\ Len(logs') >= Len(logs)
      /\ \A i \in DOMAIN logs : logs'[i] = logs[i] ]_vars

(* a manual entry has been appended behind the rows of the handlers *)
C25_Witness ==
  /\ last.op = "addTrackingLog"
  /\ last.result = "ok"
  /\ Len(logs) >= 3
  /\ logs[Len(logs)].action_type = "NOTE_ADDED"
  /\ logs[1].action_type = "CREATED"

(* C26: a mutating operation acts as one atomic unit.  For two overlapping  *)
(* invocations of processDisposition for the same assignment both serial    *)
(* orders complete the assignment once and refuse the other invocation, so  *)
(* the invocation that writes when the assignment is already completed      *)
(* must leave requests, assignments and logs as they are.                   *)
C26_SerialOutcome ==
  [][ \A i \in DOMAIN pending :
        (/\ pending' = Returned(i)
         /\ assignments[pending[i].input.assignment_id].is_completed)
          => UNCHANGED <<requests, assignments, logs>> ]_vars

(* C27: an acting user with role ADMIN is granted access by every read:     *)
(* getRequestById returns the request; getTrackingLogs,                     *)
(* getSupportingDocuments and getDispositionAssignments return the rows of  *)
(* a call with no acting user; getRequests adds no restriction.             *)
C27_AdminReadsAll ==
  \A userId \in UsersWithRole("ADMIN") :
     /\ GetRequests(NoFilter, userId) = GetRequests(NoFilter, NullId)
     /\ \A requestId \in Ids(requests) :
          /\ GetRequestById(requestId, userId) # << >>
          /\ GetTrackingLogs(requestId, userId) = GetTrackingLogs(requestId, NullId)
          /\ GetSupportingDocuments(requestId, userId)
                = GetSupportingDocuments(requestId, NullId)
          /\ GetDispositionAssignments(requestId, userId)
                = GetDispositionAssignments(requestId, NullId)

(* C28: getRequestById with an acting user returns the request only to an   *)
(* ADMIN, to the creator or to the current handler; every other user, a     *)
(* faculty-level role and an unknown id included, gets null.                *)
C28_RequestOnlyForAdminCreatorHandler ==
  \A requestId \in Ids(requests), userId \in 1 .. (Len(users) + 1) :
     GetRequestById(requestId, userId) # << >> =>
        /\ userId \in Ids(users)
        /\ \/ users[userId].role = "ADMIN"
           \/ requests[requestId].created_by_user_id = userId
           \/ requests[requestId].current_handler_user_id = userId

(* C29: a user with an assignment of a request, completed or not, gets rows *)
(* from getDispositionAssignments and from getTrackingLogs, also when the   *)
(* user is neither creator nor current handler.                             *)
C29_AssigneeReads ==
  \A a \in Ids(assignments) :
     LET requestId == assignments[a].letter_request_id
         userId == assignments[a].assigned_to_user_id
     IN (requestId \in Ids(requests) /\ userId \in Ids(users)) =>
           /\ GetDispositionAssignments(requestId, userId) # << >>
           /\ GetTrackingLogs(requestId, userId) # << >>

(* C30: getTrackingLogs grants program staff and a program chair that are   *)
(* neither creator nor current handler access exactly when the program of   *)
(* the user is the program of the student the request is for, whatever the  *)
(* program of the creator.                                                  *)
C30_ProgramOfStudentDecides ==
  \A requestId \in Ids(requests), userId \in Ids(users) :
     (/\ users[userId].role \in {"STAFF_PRODI", "KAPRODI"}
      /\ requests[requestId].created_by_user_id # userId
      /\ requests[requestId].current_handler_user_id # userId)
        => (GetTrackingLogs(requestId, userId) # << >>
              <=> users[userId].prodi = students[requests[requestId].student_id].prodi)

(* C31: every request that getRequests returns to an acting user lies in    *)
(* the scope of the role of that user (STUDENT: created by the user;        *)
(* program staff and program chair: the program of the student is the       *)
(* program of the user; faculty roles: the user is creator or current       *)
(* handler; ADMIN: any; unknown user: none) and meets every filter that     *)
(* was supplied: a filter only narrows the result of the role.              *)
InRoleScope(userId, r) ==
  /\ userId \in Ids(users)
  /\ CASE users[userId].role = "ADMIN" -> TRUE
       [] users[userId].role = "STUDENT" -> requests[r].created_by_user_id = userId
       [] users[userId].role \in {"STAFF_PRODI", "KAPRODI"} ->
            students[requests[r].student_id].prodi = users[userId].prodi
       [] OTHER -> \/ requests[r].created_by_user_id = userId
                   \/ requests[r].current_handler_user_id = userId

MeetsFilter(filter, r) ==
  /\ filter.status # NullText => requests[r].status = filter.status
  /\ filter.priority # NullText => requests[r].priority = filter.priority
  /\ filter.created_by_user_id # NullId =>
        requests[r].created_by_user_id = filter.created_by_user_id
  /\ filter.current_handler_user_id # NullId =>
        requests[r].current_handler_user_id = filter.current_handler_user_id

Listed(filter, userId) ==
  {GetRequests(filter, userId)[i].id : i \in DOMAIN GetRequests(filter, userId)}

C31_ListingInScope ==
  \A userId \in 1 .. (Len(users) + 1), filter \in FilterInputs :
     /\ \A r \in Listed(filter, userId) :
          /\ r \in Ids(requests)
          /\ InRoleScope(userId, r)
          /\ MeetsFilter(filter, r)
     /\ Listed(filter, userId) \subseteq Listed(NoFilter, userId)

(* an officer that handles the request lists it, a filter on another status *)
(* hides it, and program staff of another program does not list it          *)
C31_Witness ==
  /\ last.op = "getRequests"
  /\ last.id = 3
  /\ last.result = "rows"
  /\ Listed(NoFilter, 3) = {1}
  /\ Listed([NoFilter EXCEPT !.status = "DRAFT"], 3) = {}
  /\ 4 \in Ids(users)
  /\ Listed(NoFilter, 4) = {}
  /\ Listed(NoFilter, 2) = {1}

(* C32: every request that exists was created by a user with role program   *)
(* staff: createLetterRequest succeeds only for such an acting user.        *)
C32_CreatedByProgramStaff ==
  \A r \in Ids(requests) :
     /\ requests[r].created_by_user_id \in Ids(users)
     /\ users[requests[r].created_by_user_id].role = "STAFF_PRODI"

(* C33: processDisposition changes the status or the current handler of a   *)
(* request only while the request is under disposition: when the status is  *)
(* not a DISPOSISI_TO_* status, processing a left-over assignment leaves    *)
(* status and handler of the request as they are.                           *)
C33_OnlyUnderDisposition ==
  [][ \A a \in Ids(assignments) :
        LET r == assignments[a].letter_request_id IN
        (/\ Succeeds("processDisposition")
         /\ last'.id = a
         /\ r \in Ids(requests)
         /\ requests[r].status \notin DispositionStatuses)
          => /\ requests'[r].status = requests[r].status
             /\ requests'[r].current_handler_user_id
                   = requests[r].current_handler_user_id ]_vars

(* C34: whenever a request has status TTD_READY its final_letter_url is     *)
(* set, so that the dean can sign it.                                       *)
C34_ReadyHasFinalLetter ==
  \A r \in Ids(requests) :
     requests[r].status = "TTD_READY" => HasFinalLetter(requests[r])

SignedStatuses == {"TTD_DONE", "RETURNED_TO_PRODI", "PRINTED", "DELIVERED", "ARCHIVED"}

(* the tracking log of the request holds a SIGNED row written by a dean *)
SignedByDean(requestId) ==
  \E i \in RequestsOf(logs, requestId) :
     /\ logs[i].action_type = "SIGNED"
     /\ logs[i].user_id \in UsersWithRole("DEKAN")

(* C35: a request in status TTD_DONE or in a later status (RETURNED_TO_PRODI, PRINTED,
   DELIVERED, ARCHIVED) has a SIGNED log row attributed to a user with role dean, and
   a log row that records its passage through TTD_READY. *)
C35_DoneOnlyAfterSigning ==
  \A r \in Ids(requests) :
     requests[r].status \in SignedStatuses
       => /\ SignedByDean(r)
          /\ \E i \in RequestsOf(logs, r) : logs[i].new_status = "TTD_READY"

Least(S) == CHOOSE x \in S : \A y \in S : x <= y

(* the status row of the request written just before row i *)
StatusRowBefore(requestId, i) == Greatest({j \in StatusRows(requestId) : j < i})

(* C36: the log rows of a request that carry a new_status, written by the lifecycle
   handlers (every mutating handler but addTrackingLog), form a chain in write order:
   the first has previous_status null and new_status DRAFT, and the previous_status of
   each later row is the new_status of the status row written just before it. *)
C36_StatusChain ==
  \A r \in Ids(requests) :
    LET S == StatusRows(r) IN
    S # {} =>
      /\ logs[Least(S)].previous_status = NullText
      /\ logs[Least(S)].new_status = "DRAFT"
      /\ \A i \in S \ {Least(S)} :
           logs[i].previous_status = logs[StatusRowBefore(r, i)].new_status

(* the step is a call of uploadSupportingDocument or of addTrackingLog *)
DocumentOrNoteStep == last'.op \in {"uploadSupportingDocument", "addTrackingLog"}

(* the table gains exactly one row and keeps the rows it had *)
OneRowAdded(before, after) ==
  /\ Len(after) = Len(before) + 1
  /\ SubSeq(after, 1, Len(before)) = before

(* C37: uploadSupportingDocument and addTrackingLog change no request and no
   disposition assignment; a successful uploadSupportingDocument adds exactly one
   document row and one DOCUMENT_UPLOADED log row with null previous_status and
   new_status; a successful addTrackingLog adds exactly one log row; a call of either
   for a request or an acting user that does not exist fails and changes nothing. *)
C37_DocumentsAndNotesFrame ==
  [][ /\ DocumentOrNoteStep => UNCHANGED <<requests, assignments>>
      /\ Succeeds("uploadSupportingDocument") =>
           /\ OneRowAdded(documents, documents')
           /\ documents'[Len(documents')].letter_request_id = last'.id
           /\ OneRowAdded(logs, logs')
           /\ logs'[Len(logs')].letter_request_id = last'.id
           /\ logs'[Len(logs')].action_type = "DOCUMENT_UPLOADED"
           /\ logs'[Len(logs')].previous_status = NullText
           /\ logs'[Len(logs')].new_status = NullText
      /\ Succeeds("addTrackingLog") =>
           /\ OneRowAdded(logs, logs')
           /\ logs'[Len(logs')].letter_request_id = last'.id
           /\ UNCHANGED documents
      /\ \A requestId \in RequestIdInputs, userId \in AuditActorInputs :
           (requestId \notin Ids(requests) \/ userId \notin Ids(users)) =>
             /\ UploadSupportingDocument(requestId, "transkrip.pdf", "url/transkrip.pdf", userId)
                  => last'.result # "ok" /\ UNCHANGED db
             /\ \A input \in AddTrackingLogInputs :
                  (input.request_id = requestId /\ AddTrackingLog(input, userId))
                    => last'.result # "ok" /\ UNCHANGED db ]_vars

(* a request under disposition with a manual entry in its log: a supporting document
   has just been uploaded for it *)
C37_Witness ==
  /\ last.op = "uploadSupportingDocument"
  /\ last.result = "ok"
  /\ last.id \in Ids(requests)
  /\ requests[last.id].status \in DispositionStatuses
  /\ RequestsOf(assignments, last.id) # {}
  /\ \E i \in RequestsOf(logs, last.id) : logs[i].action_type = "NOTE_ADDED"
  /\ logs[Len(logs)].action_type = "DOCUMENT_UPLOADED"

(* createDisposition has just succeeded for request r with a list of n assignments *)
JustDisposed(r, n) ==
  /\ last = Outcome("createDisposition", r, "ok")
  /\ logs # << >>
  /\ logs[Len(logs)].description = DispositionDescription(n)

(* the rows of the successful calls of processDisposition on request r *)
ProcessedRows(r) ==
  {i \in RequestsOf(logs, r) : logs[i].action_type \in {"PROCESSED", "ESCALATED"}}

(* the n assignments that the latest createDisposition inserted *)
LatestAssignments(n) == (Len(assignments) - n + 1) .. Len(assignments)

SequenceDone(r, n) ==
  /\ r \in Ids(requests)
  /\ n <= Len(assignments)
  /\ requests[r].status = "TTD_READY"
  /\ \A a \in LatestAssignments(n) : assignments[a].is_completed
  /\ Cardinality(ProcessedRows(r)) = n

(* C38: once createDisposition has succeeded with n assignments, when only calls of
   processDisposition without flags touch the request and every assignee of an
   un-completed assignment eventually calls, the request ends in TTD_READY with the n
   assignments completed after exactly n successful calls of processDisposition. *)
C38_SequenceTerminates ==
  \A r \in 1 .. MaxRequests, n \in 1 .. MaxAssignments :
     JustDisposed(r, n) ~> [] SequenceDone(r, n)

(* C39: a successful processDisposition changes the assignment it was called for and
   no other assignment row: every other assignment, of the same request (also the
   ones an escalation or a coordination exit passes over) or of another request,
   keeps is_completed, completed_at and notes; and no other request changes its
   status or its current handler. *)
C39_ProcessFrame ==
  [][ \A a \in Ids(assignments) :
        (Succeeds("processDisposition") /\ last'.id = a) =>
           /\ Ids(assignments') = Ids(assignments)
           /\ assignments'[a] # assignments[a]
           /\ \A b \in Ids(assignments) \ {a} :
                /\ assignments'[b].is_completed = assignments[b].is_completed
                /\ assignments'[b].completed_at = assignments[b].completed_at
                /\ assignments'[b].notes = assignments[b].notes
           /\ Ids(requests') = Ids(requests)
           /\ \A r \in Ids(requests) \ {assignments[a].letter_request_id} :
                /\ requests'[r].status = requests[r].status
                /\ requests'[r].current_handler_user_id = requests[r].current_handler_user_id
     ]_vars

(* an escalation or a coordination exit has passed over an open assignment of the
   request, and another request waits in DRAFT *)
C39_Witness ==
  /\ last.op = "processDisposition"
  /\ last.result = "ok"
  /\ assignments[last.id].is_completed
  /\ LET rid == assignments[last.id].letter_request_id IN
       /\ requests[rid].status \in {"ESCALATED", "FORWARDED_TO_DEKAN"}
       /\ \E b \in RequestsOf(assignments, rid) :
             /\ ~assignments[b].is_completed
             /\ assignments[b].order_sequence > assignments[last.id].order_sequence
       /\ \E r \in Ids(requests) \ {rid} : requests[r].status = "DRAFT"

====
